---------------------------- MODULE Spec2Model ----------------------------
(***************************************************************************)
(* Model of the Tausa municipal archive OCR pipeline:                      *)
(*   - parse_page_range         (src/src/ocr/pdf_processor.py)             *)
(*   - PageTranscriber.transcribe (src/src/ocr/transcriber.py)             *)
(*   - TranscriptionRepository  (src/src/storage/repository.py)            *)
(*   - TranscriptionPipeline.run (src/src/ocr/pipeline.py)                 *)
(* Strings the code parses or formats are sequences of one-character       *)
(* strings; texts the code only passes around are sequences of pieces.     *)
(***************************************************************************)
EXTENDS Integers, Sequences, FiniteSets, TLC

VARIABLES
    page_range,        \* the --pages expression, <<>> when absent (None or "")
    tokens,            \* ghost: the page list page_range was written from
    docPages,          \* the PDF on disk: -1 missing, else its page count
    save_json,         \* the run's save_json argument
    RETRY_ATTEMPTS,    \* settings.RETRY_ATTEMPTS, read from the environment
    pc,                \* position of TranscriptionPipeline.run
    error,             \* the exception that ended the run, "" when none
    total_pages,       \* len(images)
    indices,           \* the selected zero-based indices
    pos,               \* 1-based position of the for loop in indices
    processed_pages,   \* result.processed_pages
    attempt,           \* transcribe: the for loop's attempt
    calls,             \* ghost: messages.create calls of this transcribe
    outcomes,          \* ghost: what each call of this transcribe ended in
    sleeps,            \* ghost: time.sleep arguments of this transcribe
    transcription,     \* the value transcribe returned
    txtFile,           \* <stem>_transcription.txt
    jsonFile,          \* <stem>_transcription.json
    transcribeCalls,   \* ghost: invocations of transcribe in this run
    saves,             \* ghost: completed save_progress calls of this run
    pauses,            \* ghost: inter-page sleeps of this run
    jsonSaves,         \* ghost: invocations of save_json in this run
    firstSaved,        \* ghost: the text file as the first completed save left it
    script,            \* the standalone script's transcribe_page: its loop and result
    tally              \* ghost: the service calls of the whole run, where they are tallied

vars == <<page_range, tokens, docPages, save_json, RETRY_ATTEMPTS, pc, error,
          total_pages, indices, pos, processed_pages, attempt, calls,
          outcomes, sleeps, transcription, txtFile, jsonFile,
          transcribeCalls, saves, pauses, jsonSaves, firstSaved, script,
          tally>>

---------------------------------------------------------------------------
(* Bounds of the model *)

\* longest raw page-range expression, in characters
MaxExprLen == 4
\* most tokens of a page list a page-range expression is written from
MaxTokens == 2
\* largest small page number written into a page list
MaxNum == 3
\* most pages of a source document
MaxPages == 2
\* largest attempt cap
MaxAttempts == 3
\* longest transcription text handed to the Result Store, in characters
MaxTextLen == 2
\* most calls of save_progress with one unchanged result
MaxSaves == 2
\* most pages of a document transcribed whole, without a range expression
MaxDocPages == 3

---------------------------------------------------------------------------
(* Small helpers *)

Min(a, b) == IF a < b THEN a ELSE b

Range(s) == {s[i] : i \in DOMAIN s}

RECURSIVE SortedSeqDescending(_)
\* the list of a finite set of integers, largest first
SortedSeqDescending(S) ==
    IF S = {} THEN <<>>
    ELSE LET m == CHOOSE x \in S : \A y \in S : y <= x
         IN  <<m>> \o SortedSeqDescending(S \ {m})

RECURSIVE SortedSeq(_)
\* sorted(indices): the ascending list of a finite set of integers
SortedSeq(S) ==
    IF S = {} THEN <<>>
    ELSE LET m == CHOOSE x \in S : \A y \in S : x <= y
         IN  <<m>> \o SortedSeq(S \ {m})

RECURSIVE Concat(_)
\* the concatenation of a sequence of sequences
Concat(ss) == IF ss = <<>> THEN <<>> ELSE Head(ss) \o Concat(Tail(ss))

---------------------------------------------------------------------------
(* Page Selector: parse_page_range over characters *)

Digits == {"0", "1", "2", "3", "4", "5", "6", "7", "8", "9"}

DigitVal(c) ==
    CASE c = "0" -> 0 [] c = "1" -> 1 [] c = "2" -> 2 [] c = "3" -> 3
      [] c = "4" -> 4 [] c = "5" -> 5 [] c = "6" -> 6 [] c = "7" -> 7
      [] c = "8" -> 8 [] c = "9" -> 9

\* index of the first c in s, 0 when there is none
FirstIndex(s, c) ==
    IF c \in Range(s)
    THEN CHOOSE i \in DOMAIN s : s[i] = c /\ \A j \in 1..(i-1) : s[j] # c
    ELSE 0

RECURSIVE Split(_, _)
\* str.split(sep): "a,,b" gives three parts, "" gives one empty part
Split(s, sep) ==
    LET i == FirstIndex(s, sep)
    IN  IF i = 0 THEN <<s>>
        ELSE <<SubSeq(s, 1, i-1)>> \o Split(SubSeq(s, i+1, Len(s)), sep)

\* str.split("-", maxsplit=1) of a string that holds a hyphen
SplitOnce(s, sep) ==
    LET i == FirstIndex(s, sep)
    IN  <<SubSeq(s, 1, i-1), SubSeq(s, i+1, Len(s))>>

\* str.strip(): leading and trailing blanks removed
Strip(s) ==
    LET keep == {i \in DOMAIN s : s[i] # " "}
    IN  IF keep = {} THEN <<>>
        ELSE LET lo == CHOOSE i \in keep : \A j \in keep : i <= j
                 hi == CHOOSE i \in keep : \A j \in keep : j <= i
             IN  SubSeq(s, lo, hi)

IsDigits(s) == Len(s) > 0 /\ \A i \in DOMAIN s : s[i] \in Digits

\* whether int(s) returns: blanks around, an optional sign, then digits
\* (underscores between digits are outside the alphabet of the model)
IntParsable(s) ==
    LET t == Strip(s)
    IN  \/ IsDigits(t)
        \/ Len(t) > 1 /\ t[1] \in {"-", "+"} /\ IsDigits(Tail(t))

RECURSIVE DigitsValue(_)
DigitsValue(t) ==
    IF t = <<>> THEN 0
    ELSE 10 * DigitsValue(SubSeq(t, 1, Len(t)-1)) + DigitVal(t[Len(t)])

\* int(s) for a parsable s
IntValue(s) ==
    LET t == Strip(s)
    IN  IF t[1] = "-" THEN 0 - DigitsValue(Tail(t))
        ELSE IF t[1] = "+" THEN DigitsValue(Tail(t))
        ELSE DigitsValue(t)

\* the hyphen branch: start, end = token.split("-", maxsplit=1)
SplitRange(token) == SplitOnce(token, "-")

\* a hyphen range whose end is taken as written
RangeEndUnclamped(end, total) == end

\* the upper end of a hyphen range: min(int(end), total_pages)
RangeEnd(end, total) == Min(end, total)

\* one iteration of the for loop over the tokens: the indices the token adds,
\* or a ValueError
ParseToken(rawToken, total) ==
    LET token == Strip(rawToken)
    IN  IF "-" \in Range(token)
        THEN LET parts == SplitRange(token)
             IN  IF IntParsable(parts[1]) /\ IntParsable(parts[2])
                 THEN [ok  |-> TRUE,
                       idx |-> (IntValue(parts[1]) - 1) ..
                               (RangeEnd(IntValue(parts[2]), total) - 1)]
                 ELSE [ok |-> FALSE, idx |-> {}]
        ELSE IF IntParsable(token)
             THEN [ok |-> TRUE, idx |-> {IntValue(token) - 1}]
             ELSE [ok |-> FALSE, idx |-> {}]

\* parse_page_range: ok and the sorted indices, or not ok (ValueError)
parse_page_range(expr, total) ==
    LET toks == Split(expr, ",")
        res  == [i \in DOMAIN toks |-> ParseToken(toks[i], total)]
    IN  IF \A i \in DOMAIN res : res[i].ok
        THEN [ok |-> TRUE,
              indices |-> SortedSeq(UNION {res[i].idx : i \in DOMAIN res})]
        ELSE [ok |-> FALSE, indices |-> <<>>]

\* a Select stage that leaves the first page out when no range is given
SelectIndicesSkipFirst(expr, total) ==
    IF expr # <<>>
    THEN parse_page_range(expr, total)
    ELSE [ok |-> TRUE, indices |-> [i \in 1..(total - 1) |-> i]]

\* the Select stage of run: parse_page_range(...) if page_range else
\* list(range(total_pages))
SelectIndices(expr, total) ==
    IF expr # <<>>
    THEN parse_page_range(expr, total)
    ELSE [ok |-> TRUE, indices |-> [i \in 1..total |-> i - 1]]

---------------------------------------------------------------------------
(* Inputs: page-range expressions *)

\* the characters raw expressions are drawn from
Alphabet == {"0", "1", "3", "-", ",", " ", "a"}

RawExprs == UNION {[1..n -> Alphabet] : n \in 0..MaxExprLen}

\* page numbers written into page lists: small ones and one beyond any document
PageNums == (0..MaxNum) \cup {100}

\* a page list entry: a single page p, or a hyphen range start-end
PageTokens ==
    [kind : {"single"}, p : PageNums, e : {0}]
    \cup [kind : {"range"}, p : PageNums, e : PageNums]

PageLists == UNION {[1..n -> PageTokens] : n \in 1..MaxTokens}

RECURSIVE NatToChars(_)
\* the decimal digits of a natural number
NatToChars(n) ==
    LET d == <<"0", "1", "2", "3", "4", "5", "6", "7", "8", "9">>
    IN  IF n < 10 THEN <<d[n + 1]>>
        ELSE NatToChars(n \div 10) \o <<d[(n % 10) + 1]>>

TokenChars(t) ==
    IF t.kind = "single" THEN NatToChars(t.p)
    ELSE NatToChars(t.p) \o <<"-">> \o NatToChars(t.e)

RECURSIVE WriteExpr(_)
\* a page list written the way a user types it: "1,3,5-7"
WriteExpr(list) ==
    IF Len(list) = 1 THEN TokenChars(list[1])
    ELSE TokenChars(list[1]) \o <<",">> \o WriteExpr(Tail(list))


---------------------------------------------------------------------------
(* Transcription Client: texts, service outcomes, the retry loop *)

\* settings.RETRY_DELAY_SECONDS, its default
RETRY_DELAY_SECONDS == 5

\* what the service answers on success (response.content[0].text)
ServiceTexts == {<<"Contrato verbal No. 12">>, <<"[ilegible]">>}

\* str(error) of an APIError that is not rate limiting
ErrorDetails == {"Overloaded", "Connection error."}

\* str(error) of a RateLimitError
RateLimitDetail == "rate_limit_error"

Outcomes ==
    [kind : {"ok"}, text : ServiceTexts, detail : {""}]
    \cup [kind : {"rate"}, text : {<<>>}, detail : {RateLimitDetail}]
    \cup [kind : {"err"}, text : {<<>>}, detail : ErrorDetails]

\* the value of a variable that holds no text yet
NoText == <<>>

\* an error marker that leaves the error out
ErrorMarkerNoDetail(page, detail) ==
    <<"[TRANSCRIPTION ERROR -- page ", ToString(page), "]">>

\* f"[TRANSCRIPTION ERROR -- page {page_number}: {error}]"
ErrorMarker(page, detail) ==
    <<"[TRANSCRIPTION ERROR -- page ", ToString(page), ": ", detail, "]">>

\* an attempts-exhausted marker that leaves the attempt cap out
FailedMarkerNoCap(page, cap) ==
    <<"[TRANSCRIPTION FAILED -- page ", ToString(page), "]">>

\* f"[TRANSCRIPTION FAILED -- page {page_number}: all {RETRY_ATTEMPTS} attempts exhausted]"
FailedMarker(page, cap) ==
    <<"[TRANSCRIPTION FAILED -- page ", ToString(page), ": all ",
      ToString(cap), " attempts exhausted]">>

\* a success branch that goes round the loop again
OnSuccessContinues(o) == [kind |-> "retry", text |-> o.text, sleeps |-> <<>>]

\* return response.content[0].text
OnSuccess(o) == [kind |-> "return", text |-> o.text, sleeps |-> <<>>]

\* a rate-limit handler that waits the base delay whatever the attempt
OnRateLimitFixed(att) ==
    [kind |-> "retry", text |-> NoText, sleeps |-> <<RETRY_DELAY_SECONDS>>]

\* except anthropic.RateLimitError: sleep RETRY_DELAY_SECONDS * attempt
OnRateLimit(att) ==
    [kind |-> "retry", text |-> NoText, sleeps |-> <<RETRY_DELAY_SECONDS * att>>]

\* an error handler whose wait grows with the attempt
OnApiErrorScaled(att, cap, page, detail) ==
    IF att = cap
    THEN [kind |-> "return", text |-> ErrorMarker(page, detail), sleeps |-> <<>>]
    ELSE [kind |-> "retry", text |-> NoText,
          sleeps |-> <<RETRY_DELAY_SECONDS * att>>]

\* an error handler that re-raises on the last attempt
OnApiErrorRaises(att, cap, page, detail) ==
    IF att = cap
    THEN [kind |-> "raise", text |-> NoText, sleeps |-> <<>>]
    ELSE [kind |-> "retry", text |-> NoText, sleeps |-> <<RETRY_DELAY_SECONDS>>]

\* except anthropic.APIError as error: the marker on the last attempt,
\* else sleep RETRY_DELAY_SECONDS
OnApiError(att, cap, page, detail) ==
    IF att = cap
    THEN [kind |-> "return", text |-> ErrorMarker(page, detail), sleeps |-> <<>>]
    ELSE [kind |-> "retry", text |-> NoText, sleeps |-> <<RETRY_DELAY_SECONDS>>]

\* one iteration of the for loop's body: the try and its two handlers
AttemptStep(att, cap, page, o) ==
    CASE o.kind = "ok"   -> OnSuccess(o)
      [] o.kind = "rate" -> OnRateLimit(att)
      [] o.kind = "err"  -> OnApiError(att, cap, page, o.detail)

\* a retry loop in which a rate-limited attempt is not counted
NextAttemptRateFree(att, o) == IF o.kind = "rate" THEN att ELSE att + 1

\* the for loop's next value of attempt
NextAttempt(att, o) == att + 1

---------------------------------------------------------------------------
(* The standalone script: transcribe_page of transcribe.py *)

\* RETRY_DELAY of the script, in seconds
RETRY_DELAY == 5

\* f"[ERROR en pagina {page_num}: {e}]"
ScriptErrorMarker(page, detail) ==
    <<"[ERROR en pagina ", ToString(page), ": ", detail, "]">>

\* f"[FALLO despues de {RETRY_ATTEMPTS} intentos en pagina {page_num}]"
ScriptFailedMarker(page, cap) ==
    <<"[FALLO despues de ", ToString(cap), " intentos en pagina ",
      ToString(page), "]">>

\* return response.content[0].text
ScriptOnSuccess(o) == [kind |-> "return", text |-> o.text, sleeps |-> <<>>]

\* a script whose rate-limit wait does not grow with the attempt
ScriptOnRateLimitFixed(att) ==
    [kind |-> "retry", text |-> NoText, sleeps |-> <<RETRY_DELAY>>]

\* except anthropic.RateLimitError: wait = RETRY_DELAY * attempt
ScriptOnRateLimit(att) ==
    [kind |-> "retry", text |-> NoText, sleeps |-> <<RETRY_DELAY * att>>]

\* except anthropic.APIError as e: the marker on the last attempt, else
\* sleep RETRY_DELAY
ScriptOnApiError(att, cap, page, detail) ==
    IF att = cap
    THEN [kind |-> "return", text |-> ScriptErrorMarker(page, detail),
          sleeps |-> <<>>]
    ELSE [kind |-> "retry", text |-> NoText, sleeps |-> <<RETRY_DELAY>>]

\* one iteration of the script's for loop
ScriptAttemptStep(att, cap, page, o) ==
    CASE o.kind = "ok"   -> ScriptOnSuccess(o)
      [] o.kind = "rate" -> ScriptOnRateLimit(att)
      [] o.kind = "err"  -> ScriptOnApiError(att, cap, page, o.detail)

\* transcribe_page not called
ScriptIdle ==
    [pc |-> "idle", attempt |-> 0, calls |-> 0, sleeps |-> <<>>,
     result |-> NoText]

\* transcribe_page entered: for attempt in range(1, RETRY_ATTEMPTS + 1)
ScriptEntered ==
    [pc |-> "loop", attempt |-> 1, calls |-> 0, sleeps |-> <<>>,
     result |-> NoText]

---------------------------------------------------------------------------
(* Result Store: the text file and the JSON file *)

HeaderLine == [kind |-> "header", page |-> 0, text |-> NoText]
SeparatorLine == [kind |-> "separator", page |-> 0, text |-> NoText]
BannerLine(n) == [kind |-> "banner", page |-> n, text |-> NoText]
TextLine(t) == [kind |-> "text", page |-> 0, text |-> t]
BlankLine == [kind |-> "blank", page |-> 0, text |-> NoText]

\* the five lines save_progress appends for one page
PageLines(page) ==
    <<SeparatorLine, BannerLine(page.page_number), SeparatorLine,
      TextLine(page.transcription), BlankLine>>

\* a save_progress that writes the newest page only
ProgressLinesLastOnly(pages) ==
    IF pages = <<>> THEN <<HeaderLine>>
    ELSE <<HeaderLine>> \o PageLines(pages[Len(pages)])

\* the lines save_progress joins and writes
ProgressLines(pages) ==
    <<HeaderLine>> \o Concat([i \in DOMAIN pages |-> PageLines(pages[i])])

\* asdict(result), its page-level part
JsonPayload(total, pages) ==
    [total_pages |-> total, processed_pages |-> pages]

\* an encoder that escapes the quote and nothing else
EscapeCharQuoteOnly(c) ==
    IF c = "\"" THEN <<"\\", "\"">> ELSE <<c>>

\* json.dumps of a string character: the quote, the backslash and the line
\* feed are written as two-character escapes, every other character as itself
\* (ensure_ascii=False)
EscapeChar(c) ==
    CASE c = "\"" -> <<"\\", "\"">>
      [] c = "\\" -> <<"\\", "\\">>
      [] c = "\n" -> <<"\\", "n">>
      [] OTHER -> <<c>>

\* json.dumps of a string: the escaped characters between two quotes
JsonString(text) ==
    <<"\"">> \o Concat([i \in DOMAIN text |-> EscapeChar(text[i])]) \o <<"\"">>

\* json.dumps of an int
JsonInt(n) ==
    IF n < 0 THEN <<"-">> \o NatToChars(0 - n) ELSE NatToChars(n)

\* json.dumps of one page object; a key with its colon is one piece
JsonPage(page) ==
    <<"{", "\"page_number\": ">> \o JsonInt(page.page_number)
        \o <<", ", "\"transcription\": ">> \o JsonString(page.transcription)
        \o <<"}">>

RECURSIVE JsonPageList(_)
\* the page objects, a comma between two of them
JsonPageList(pages) ==
    IF pages = <<>> THEN <<>>
    ELSE IF Len(pages) = 1 THEN JsonPage(pages[1])
    ELSE JsonPage(pages[1]) \o <<", ">> \o JsonPageList(Tail(pages))

\* json.dumps(payload, ensure_ascii=False, indent=2), as a sequence of pieces:
\* structural pieces and the characters of numbers and strings (the white
\* space of the indentation, which no reader looks at, is left out)
JsonDumps(payload) ==
    <<"{", "\"total_pages\": ">> \o JsonInt(payload.total_pages)
        \o <<", ", "\"processed_pages\": ", "[">>
        \o JsonPageList(payload.processed_pages) \o <<"]", "}">>

\* save_json: the file as write_text leaves it
WrittenJsonFile(total, pages) ==
    [exists |-> TRUE, text |-> JsonDumps(JsonPayload(total, pages))]

NoTxtFile == [exists |-> FALSE, lines |-> <<>>]
NoJsonFile == [exists |-> FALSE, text |-> <<>>]

\* what an earlier run of the same document left in the output directory
EarlierPages == <<[page_number |-> 1, transcription |-> <<"[ilegible]">>]>>
EarlierTxtFile == [exists |-> TRUE, lines |-> ProgressLines(EarlierPages)]
EarlierJsonFile == WrittenJsonFile(1, EarlierPages)

\* the pages a reader finds in the text file: each banner with the text after it
PagesIn(file) ==
    LET banners == SelectSeq(file.lines, LAMBDA l : l.kind = "banner")
        texts   == SelectSeq(file.lines, LAMBDA l : l.kind = "text")
    IN  [i \in 1..Min(Len(banners), Len(texts)) |->
            [page_number |-> banners[i].page, transcription |-> texts[i].text]]

\* A reader of the JSON file (json.loads): every step checks the piece it
\* expects and gives up, ok = FALSE, on anything else.
At(doc, j) == IF j \in DOMAIN doc THEN doc[j] ELSE ""

RECURSIVE ReadString(_, _, _)
\* the characters of a string from position j, up to its closing quote
ReadString(doc, j, acc) ==
    IF j > Len(doc) THEN [ok |-> FALSE, text |-> acc, next |-> j]
    ELSE IF doc[j] = "\"" THEN [ok |-> TRUE, text |-> acc, next |-> j + 1]
    ELSE IF doc[j] = "\\"
         THEN CASE At(doc, j + 1) = "n" ->
                       ReadString(doc, j + 2, Append(acc, "\n"))
                [] At(doc, j + 1) \in {"\"", "\\"} ->
                       ReadString(doc, j + 2, Append(acc, doc[j + 1]))
                [] OTHER -> [ok |-> FALSE, text |-> acc, next |-> j]
    ELSE ReadString(doc, j + 1, Append(acc, doc[j]))

RECURSIVE DigitsEnd(_, _)
\* the position after the run of digits that starts at j
DigitsEnd(doc, j) ==
    IF At(doc, j) \in Digits THEN DigitsEnd(doc, j + 1) ELSE j

\* an int from position j
ReadInt(doc, j) ==
    LET neg  == At(doc, j) = "-"
        from == IF neg THEN j + 1 ELSE j
        to   == DigitsEnd(doc, from)
        n    == DigitsValue(SubSeq(doc, from, to - 1))
    IN  [ok |-> to > from, value |-> IF neg THEN 0 - n ELSE n, next |-> to]

\* one page object from position j
ReadPage(doc, j) ==
    LET num == ReadInt(doc, j + 2)
        str == ReadString(doc, num.next + 3, <<>>)
    IN  [ok   |-> /\ At(doc, j) = "{"
                  /\ At(doc, j + 1) = "\"page_number\": "
                  /\ num.ok
                  /\ At(doc, num.next) = ", "
                  /\ At(doc, num.next + 1) = "\"transcription\": "
                  /\ At(doc, num.next + 2) = "\""
                  /\ str.ok
                  /\ At(doc, str.next) = "}",
         page |-> [page_number |-> num.value, transcription |-> str.text],
         next |-> str.next + 1]

RECURSIVE ReadPageList(_, _, _)
\* the page objects from position j up to the closing bracket
ReadPageList(doc, j, acc) ==
    IF At(doc, j) = "]" THEN [ok |-> TRUE, pages |-> acc, next |-> j + 1]
    ELSE LET from == IF acc # <<>> /\ At(doc, j) = ", " THEN j + 1 ELSE j
             one  == ReadPage(doc, from)
         IN  IF (acc # <<>> /\ from = j) \/ ~one.ok
             THEN [ok |-> FALSE, pages |-> acc, next |-> j]
             ELSE ReadPageList(doc, one.next, Append(acc, one.page))

\* json.loads of the whole document
JsonLoads(doc) ==
    LET total == ReadInt(doc, 3)
        list  == ReadPageList(doc, total.next + 3, <<>>)
    IN  [ok |-> /\ At(doc, 1) = "{"
                /\ At(doc, 2) = "\"total_pages\": "
                /\ total.ok
                /\ At(doc, total.next) = ", "
                /\ At(doc, total.next + 1) = "\"processed_pages\": "
                /\ At(doc, total.next + 2) = "["
                /\ list.ok
                /\ At(doc, list.next) = "}"
                /\ list.next = Len(doc),
         total_pages |-> total.value,
         processed_pages |-> list.pages]

---------------------------------------------------------------------------
(* Pipeline Coordinator: TranscriptionPipeline.run *)

\* page_number = idx + 1
page_number == indices[pos] + 1

\* whether images[idx] is an element of the list (Python's negative indices
\* count from the end)
ValidImageIndex(idx, total) == (0 - total) <= idx /\ idx < total

\* the tally of a run that does not keep one, and of one that starts to
NoTally == [on |-> FALSE, serviceCalls |-> 0]
NewTally == [on |-> TRUE, serviceCalls |-> 0]

inputVars == <<page_range, tokens, docPages, save_json, RETRY_ATTEMPTS>>
\* what no step of run changes: its inputs, and the standalone script's loop
runVars == <<inputVars, script>>
selVars == <<total_pages, indices, pos>>
retryVars == <<attempt, calls, outcomes, sleeps, transcription>>
fileVars == <<txtFile, jsonFile>>
ghostVars == <<transcribeCalls, saves, pauses, jsonSaves, firstSaved, tally>>

\* a load that does not reject a document without pages
LoadNoEmptyCheck ==
    /\ pc = "load"
    /\ IF docPages = -1
       THEN pc' = "failed" /\ error' = "FileNotFoundError"
                /\ UNCHANGED total_pages
       ELSE pc' = "select" /\ total_pages' = docPages /\ UNCHANGED error
    /\ UNCHANGED <<runVars, indices, pos, processed_pages, retryVars,
                   fileVars, ghostVars>>

\* load_pdf_pages and total_pages = len(images)
Load ==
    /\ pc = "load"
    /\ IF docPages = -1
       THEN pc' = "failed" /\ error' = "FileNotFoundError"
                /\ UNCHANGED total_pages
       ELSE IF docPages = 0
       THEN pc' = "failed" /\ error' = "ValueError" /\ UNCHANGED total_pages
       ELSE pc' = "select" /\ total_pages' = docPages /\ UNCHANGED error
    /\ UNCHANGED <<runVars, indices, pos, processed_pages, retryVars,
                   fileVars, ghostVars>>

\* the Select stage and the construction of result
Select ==
    /\ pc = "select"
    /\ LET r == SelectIndices(page_range, total_pages)
       IN  IF r.ok
           THEN pc' = "page" /\ indices' = r.indices /\ UNCHANGED error
           ELSE pc' = "failed" /\ error' = "ValueError" /\ UNCHANGED indices
    /\ UNCHANGED <<runVars, total_pages, pos, processed_pages, retryVars,
                   fileVars, ghostVars>>

\* a loop head that steps over an index outside the document
BeginPageSkipsInvalid ==
    /\ pc = "page"
    /\ pos <= Len(indices)
    /\ IF ValidImageIndex(indices[pos], total_pages)
       THEN /\ pc' = "transcribe"
            /\ attempt' = 1
            /\ calls' = 0
            /\ outcomes' = <<>>
            /\ sleeps' = <<>>
            /\ transcribeCalls' = transcribeCalls + 1
            /\ UNCHANGED pos
       ELSE /\ pos' = pos + 1
            /\ UNCHANGED <<pc, attempt, calls, outcomes, sleeps,
                           transcribeCalls>>
    /\ UNCHANGED <<runVars, total_pages, indices, error, processed_pages,
                   transcription, fileVars, saves, pauses, jsonSaves,
                   firstSaved,
                   tally>>

\* the head of the for loop with a page left: images[idx] is read and
\* transcribe is entered
BeginPage ==
    /\ pc = "page"
    /\ pos <= Len(indices)
    /\ IF ValidImageIndex(indices[pos], total_pages)
       THEN /\ pc' = "transcribe"
            /\ attempt' = 1
            /\ calls' = 0
            /\ outcomes' = <<>>
            /\ sleeps' = <<>>
            /\ transcribeCalls' = transcribeCalls + 1
            /\ UNCHANGED error
       ELSE /\ pc' = "failed"
            /\ error' = "IndexError"
            /\ UNCHANGED <<attempt, calls, outcomes, sleeps, transcribeCalls>>
    /\ UNCHANGED <<runVars, selVars, processed_pages, transcription, fileVars,
                   saves, pauses, jsonSaves, firstSaved,
                   tally>>

\* one attempt of transcribe: the service call and what its outcome leads to
Attempt ==
    /\ pc = "transcribe"
    /\ attempt <= RETRY_ATTEMPTS
    /\ \E o \in Outcomes :
          LET r == AttemptStep(attempt, RETRY_ATTEMPTS, page_number, o)
          IN  /\ calls' = calls + 1
              /\ outcomes' = Append(outcomes, o)
              /\ sleeps' = sleeps \o r.sleeps
              /\ IF r.kind = "return"
                 THEN pc' = "append" /\ transcription' = r.text
                          /\ UNCHANGED <<attempt, error>>
                 ELSE IF r.kind = "raise"
                 THEN pc' = "failed" /\ error' = "APIError"
                          /\ UNCHANGED <<attempt, transcription>>
                 ELSE attempt' = NextAttempt(attempt, o)
                          /\ UNCHANGED <<pc, transcription, error>>
    /\ tally' = IF tally.on
                THEN [tally EXCEPT !.serviceCalls = @ + 1]
                ELSE tally
    /\ UNCHANGED <<runVars, selVars, processed_pages, fileVars,
                   transcribeCalls, saves, pauses, jsonSaves, firstSaved>>

\* the for loop of transcribe ends without a return: the last statement
AttemptsExhausted ==
    /\ pc = "transcribe"
    /\ attempt > RETRY_ATTEMPTS
    /\ transcription' = FailedMarker(page_number, RETRY_ATTEMPTS)
    /\ pc' = "append"
    /\ UNCHANGED <<runVars, selVars, processed_pages, attempt, calls, outcomes,
                   sleeps, error, fileVars, ghostVars>>

\* a coordinator that puts the new PageResult in front of the list
AppendResultInFront ==
    /\ pc = "append"
    /\ processed_pages' =
          <<[page_number |-> page_number, transcription |-> transcription]>>
              \o processed_pages
    /\ pc' = "save"
    /\ UNCHANGED <<runVars, selVars, retryVars, error, fileVars,
                   transcribeCalls, saves, pauses, jsonSaves, firstSaved,
                   tally>>

\* result.processed_pages.append(PageResult(...))
AppendResult ==
    /\ pc = "append"
    /\ processed_pages' = Append(processed_pages,
          [page_number |-> page_number, transcription |-> transcription])
    /\ pc' = "save"
    /\ UNCHANGED <<runVars, selVars, retryVars, error, fileVars,
                   transcribeCalls, saves, pauses, jsonSaves, firstSaved,
                   tally>>

\* a save_progress that opens the file for appending, keeping what it holds
SaveProgressOpenAppend ==
    /\ pc = "save"
    /\ txtFile' = [exists |-> TRUE, lines |-> txtFile.lines]
    /\ pc' = "write"
    /\ UNCHANGED <<runVars, selVars, retryVars, processed_pages, error,
                   jsonFile, ghostVars>>

\* save_progress, first half: write_text opens the file for writing, which
\* creates or empties it
SaveProgressOpen ==
    /\ pc = "save"
    /\ txtFile' = [exists |-> TRUE, lines |-> <<>>]
    /\ pc' = "write"
    /\ UNCHANGED <<runVars, selVars, retryVars, processed_pages, error,
                   jsonFile, ghostVars>>

\* save_progress, second half: the joined lines are written and the file closed
SaveProgressWrite ==
    /\ pc = "write"
    /\ txtFile' = [exists |-> TRUE,
                   lines |-> txtFile.lines \o ProgressLines(processed_pages)]
    /\ saves' = saves + 1
    /\ firstSaved' = IF saves = 0 THEN txtFile'.lines ELSE firstSaved
    /\ pc' = "pause"
    /\ UNCHANGED <<runVars, selVars, retryVars, processed_pages, error,
                   jsonFile, transcribeCalls, pauses, jsonSaves, tally>>

\* a loop that goes back to its head without taking the next index
NextPageRepeats ==
    /\ pc = "pause"
    /\ pauses' = IF indices[pos] # indices[Len(indices)]
                 THEN pauses + 1 ELSE pauses
    /\ pc' = "page"
    /\ UNCHANGED <<runVars, selVars, retryVars, processed_pages,
                   error, fileVars, transcribeCalls, saves, jsonSaves,
                   firstSaved, tally>>

\* a loop that pauses after every page, the last one too
NextPageAlwaysPauses ==
    /\ pc = "pause"
    /\ pauses' = pauses + 1
    /\ pos' = pos + 1
    /\ pc' = "page"
    /\ UNCHANGED <<runVars, total_pages, indices, retryVars, processed_pages,
                   error, fileVars, transcribeCalls, saves, jsonSaves,
                   firstSaved,
                   tally>>

\* if idx != indices[-1]: time.sleep(INTER_PAGE_DELAY_SECONDS), and the loop
\* moves to the next index
NextPage ==
    /\ pc = "pause"
    /\ pauses' = IF indices[pos] # indices[Len(indices)]
                 THEN pauses + 1 ELSE pauses
    /\ pos' = pos + 1
    /\ pc' = "page"
    /\ UNCHANGED <<runVars, total_pages, indices, retryVars, processed_pages,
                   error, fileVars, transcribeCalls, saves, jsonSaves,
                   firstSaved,
                   tally>>

\* a run that returns at the end of the loop, without the final step
EndLoopReturns ==
    /\ pc = "page"
    /\ pos > Len(indices)
    /\ pc' = "done"
    /\ UNCHANGED <<runVars, selVars, retryVars, processed_pages, error,
                   fileVars, ghostVars>>

\* the for loop of run ends
EndLoop ==
    /\ pc = "page"
    /\ pos > Len(indices)
    /\ pc' = "final"
    /\ UNCHANGED <<runVars, selVars, retryVars, processed_pages, error,
                   fileVars, ghostVars>>

\* a final step that writes the JSON file whether or not it was asked for
FinalizeAlwaysSaves ==
    /\ pc = "final"
    /\ jsonFile' = WrittenJsonFile(total_pages, processed_pages)
    /\ jsonSaves' = jsonSaves + 1
    /\ pc' = "done"
    /\ UNCHANGED <<runVars, selVars, retryVars, processed_pages, error,
                   txtFile, transcribeCalls, saves, pauses, firstSaved,
                   tally>>

\* if save_json: save_json(result, pdf_path); return result
Finalize ==
    /\ pc = "final"
    /\ IF save_json
       THEN /\ jsonFile' = WrittenJsonFile(total_pages, processed_pages)
            /\ jsonSaves' = jsonSaves + 1
       ELSE UNCHANGED <<jsonFile, jsonSaves>>
    /\ pc' = "done"
    /\ UNCHANGED <<runVars, selVars, retryVars, processed_pages, error,
                   txtFile, transcribeCalls, saves, pauses, firstSaved,
                   tally>>

\* one attempt of the script's transcribe_page, called for the same page and
\* given the outcome the service gave the client's call of the same number
ScriptAttempt ==
    /\ script.pc = "loop"
    /\ script.attempt <= RETRY_ATTEMPTS
    /\ script.calls < Len(outcomes)
    /\ LET o == outcomes[script.calls + 1]
           r == ScriptAttemptStep(script.attempt, RETRY_ATTEMPTS,
                                  page_number, o)
       IN  script' =
             IF r.kind = "return"
             THEN [script EXCEPT !.pc = "returned", !.calls = @ + 1,
                                 !.sleeps = @ \o r.sleeps, !.result = r.text]
             ELSE [script EXCEPT !.attempt = @ + 1, !.calls = @ + 1,
                                 !.sleeps = @ \o r.sleeps]
    /\ UNCHANGED <<inputVars, pc, error, selVars, processed_pages, retryVars,
                   fileVars, ghostVars>>

\* the script's for loop ends without a return: the last statement
ScriptAttemptsExhausted ==
    /\ script.pc = "loop"
    /\ script.attempt > RETRY_ATTEMPTS
    /\ script' = [script EXCEPT
                     !.pc = "returned",
                     !.result = ScriptFailedMarker(page_number, RETRY_ATTEMPTS)]
    /\ UNCHANGED <<inputVars, pc, error, selVars, processed_pages, retryVars,
                   fileVars, ghostVars>>

\* the process is interrupted between two steps of the run
Interrupt ==
    /\ pc \notin {"done", "failed", "interrupted"}
    /\ pc' = "interrupted"
    /\ UNCHANGED <<runVars, selVars, retryVars, processed_pages, error,
                   fileVars, ghostVars>>

---------------------------------------------------------------------------
(* Specifications *)

\* the state of a run before its first step, its inputs left open
InitRun ==
    /\ tokens = <<>>
    /\ pc = "load"
    /\ error = ""
    /\ total_pages = 0
    /\ indices = <<>>
    /\ pos = 1
    /\ processed_pages = <<>>
    /\ attempt = 0
    /\ calls = 0
    /\ outcomes = <<>>
    /\ sleeps = <<>>
    /\ transcription = NoText
    /\ transcribeCalls = 0
    /\ saves = 0
    /\ pauses = 0
    /\ jsonSaves = 0
    /\ firstSaved = <<>>
    /\ tally = NoTally
    /\ script = ScriptIdle

\* the page-range expressions whole runs are started with
RunExprs ==
    { <<>>,
      <<"1">>,
      <<"2", ",", "1">>,
      <<"1", ",", "1", "-", "2">>,
      <<"1", "-", "9">>,
      <<"2", "-", "1">>,
      <<"0", ",", "1">>,
      <<"0", "-", "9">>,
      <<"1", ",", "9">>,
      <<"1", ",", "a">>,
      <<"1", "-", "-", "2">> }

Init ==
    /\ page_range \in RunExprs
    /\ docPages \in -1..MaxPages
    /\ save_json \in BOOLEAN
    /\ RETRY_ATTEMPTS \in 0..MaxAttempts
    /\ \E earlier \in BOOLEAN :
          /\ txtFile = IF earlier THEN EarlierTxtFile ELSE NoTxtFile
          /\ jsonFile = IF earlier THEN EarlierJsonFile ELSE NoJsonFile
    /\ InitRun

Next ==
    \/ Load
    \/ Select
    \/ BeginPage
    \/ Attempt
    \/ AttemptsExhausted
    \/ AppendResult
    \/ SaveProgressOpen
    \/ SaveProgressWrite
    \/ NextPage
    \/ EndLoop
    \/ Finalize
    \/ Interrupt

Spec == Init /\ [][Next]_vars

\* the Page Selector on every expression of the bounded input space
InitSel ==
    /\ \/ /\ tokens = <<>>
          /\ page_range \in RawExprs
       \/ /\ tokens \in PageLists
          /\ page_range = WriteExpr(tokens)
    /\ docPages \in 1..MaxPages
    /\ save_json = FALSE
    /\ RETRY_ATTEMPTS = MaxAttempts
    /\ txtFile = NoTxtFile
    /\ jsonFile = NoJsonFile
    /\ pc = "load"
    /\ error = ""
    /\ total_pages = 0
    /\ indices = <<>>
    /\ pos = 1
    /\ processed_pages = <<>>
    /\ attempt = 0
    /\ calls = 0
    /\ outcomes = <<>>
    /\ sleeps = <<>>
    /\ transcription = NoText
    /\ transcribeCalls = 0
    /\ saves = 0
    /\ pauses = 0
    /\ jsonSaves = 0
    /\ firstSaved = <<>>
    /\ tally = NoTally
    /\ script = ScriptIdle

NextSel == Load \/ Select

SpecSel == InitSel /\ [][NextSel]_vars

---------------------------------------------------------------------------
(* Whole documents: runs without a page-range expression *)

InitDoc ==
    /\ page_range = <<>>
    /\ docPages \in 1..MaxDocPages
    /\ save_json \in BOOLEAN
    /\ RETRY_ATTEMPTS \in 1..MaxAttempts
    /\ txtFile = NoTxtFile
    /\ jsonFile = NoJsonFile
    /\ InitRun

SpecDoc == InitDoc /\ [][Next]_vars

---------------------------------------------------------------------------
(* The two retry loops side by side, on one page of a document *)

InitLoops ==
    /\ page_range = <<>>
    /\ tokens = <<>>
    /\ docPages \in 1..MaxPages
    /\ save_json = FALSE
    /\ RETRY_ATTEMPTS \in -1..MaxAttempts
    /\ txtFile = NoTxtFile
    /\ jsonFile = NoJsonFile
    /\ pc = "transcribe"
    /\ error = ""
    /\ total_pages = docPages
    /\ \E idx \in 0..(docPages - 1) : indices = <<idx>>
    /\ pos = 1
    /\ processed_pages = <<>>
    /\ attempt = 1
    /\ calls = 0
    /\ outcomes = <<>>
    /\ sleeps = <<>>
    /\ transcription = NoText
    /\ transcribeCalls = 1
    /\ saves = 0
    /\ pauses = 0
    /\ jsonSaves = 0
    /\ firstSaved = <<>>
    /\ tally = NoTally
    /\ script = ScriptEntered

NextLoops ==
    \/ Attempt
    \/ AttemptsExhausted
    \/ ScriptAttempt
    \/ ScriptAttemptsExhausted

SpecLoops == InitLoops /\ [][NextLoops]_vars

---------------------------------------------------------------------------
(* Runs left to run: no interruption, every step taken in its turn *)

\* the page-range expressions of these runs: none, one page, a page beyond
\* the document, page 0, not a number
LiveExprs == { <<>>, <<"1">>, <<"9">>, <<"0">>, <<"a">> }

InitLive ==
    /\ page_range \in LiveExprs
    /\ docPages \in -1..MaxPages
    /\ save_json \in BOOLEAN
    /\ RETRY_ATTEMPTS \in -1..(MaxAttempts - 1)
    /\ txtFile = NoTxtFile
    /\ jsonFile = NoJsonFile
    /\ tokens = <<>>
    /\ pc = "load"
    /\ error = ""
    /\ total_pages = 0
    /\ indices = <<>>
    /\ pos = 1
    /\ processed_pages = <<>>
    /\ attempt = 0
    /\ calls = 0
    /\ outcomes = <<>>
    /\ sleeps = <<>>
    /\ transcription = NoText
    /\ transcribeCalls = 0
    /\ saves = 0
    /\ pauses = 0
    /\ jsonSaves = 0
    /\ firstSaved = <<>>
    /\ script = ScriptIdle
    /\ tally = NewTally

\* the steps of run itself
NextLive ==
    \/ Load
    \/ Select
    \/ BeginPage
    \/ Attempt
    \/ AttemptsExhausted
    \/ AppendResult
    \/ SaveProgressOpen
    \/ SaveProgressWrite
    \/ NextPage
    \/ EndLoop
    \/ Finalize

\* run is one sequential thread: while it has a step to take it takes it
\* (sleeps and service calls return)
SpecLive == InitLive /\ [][NextLive]_vars /\ WF_vars(NextLive)

---------------------------------------------------------------------------
(* The Result Store alone: save_progress and save_json on a given result *)

\* characters of the stored texts: a letter and the ones JSON has to escape
StoreChars == {"n", "\"", "\\", "\n"}
StoreTexts == UNION {[1..k -> StoreChars] : k \in 0..MaxTextLen}
StorePages == [page_number : 1..MaxPages, transcription : StoreTexts]
\* results of no, one or two pages, in any order of page numbers
StoreResults ==
    {<<>>} \cup {<<p>> : p \in StorePages}
           \cup {<<p, q>> : p \in StorePages, q \in StorePages}

InitStore ==
    /\ page_range = <<>>
    /\ tokens = <<>>
    /\ docPages = MaxPages
    /\ save_json = TRUE
    /\ RETRY_ATTEMPTS = MaxAttempts
    /\ \E earlier \in BOOLEAN :
          /\ txtFile = IF earlier THEN EarlierTxtFile ELSE NoTxtFile
          /\ jsonFile = IF earlier THEN EarlierJsonFile ELSE NoJsonFile
    /\ pc = "save"
    /\ error = ""
    /\ total_pages = MaxPages
    /\ indices = <<>>
    /\ pos = 1
    /\ processed_pages \in StoreResults
    /\ attempt = 0
    /\ calls = 0
    /\ outcomes = <<>>
    /\ sleeps = <<>>
    /\ transcription = NoText
    /\ transcribeCalls = 0
    /\ saves = 0
    /\ pauses = 0
    /\ jsonSaves = 0
    /\ firstSaved = <<>>
    /\ tally = NoTally
    /\ script = ScriptIdle

\* the caller hands the same result to save_progress once more
CallSaveProgressAgain ==
    /\ pc = "pause"
    /\ saves < MaxSaves
    /\ pc' = "save"
    /\ UNCHANGED <<runVars, selVars, retryVars, processed_pages, error,
                   fileVars, ghostVars>>

\* the caller goes on to save_json
CallSaveJson ==
    /\ pc = "pause"
    /\ pc' = "final"
    /\ UNCHANGED <<runVars, selVars, retryVars, processed_pages, error,
                   fileVars, ghostVars>>

NextStore ==
    \/ SaveProgressOpen
    \/ SaveProgressWrite
    \/ CallSaveProgressAgain
    \/ CallSaveJson
    \/ Finalize

SpecStore == InitStore /\ [][NextStore]_vars

---------------------------------------------------------------------------
(* Vocabulary of the properties *)

\* a text holds a piece (a page number, an error detail)
Contains(text, piece) == piece \in Range(text)

IsErrorMarker(text) ==
    /\ text # NoText
    /\ text[1] \in {"[TRANSCRIPTION ERROR -- page ",
                    "[TRANSCRIPTION FAILED -- page "}

\* every service call of the current transcribe failed
AllFailed == \A i \in DOMAIN outcomes : outcomes[i].kind # "ok"

LastOutcome == outcomes[Len(outcomes)]

\* the Select stage has run
Selected == pc \notin {"load", "select"} /\ total_pages > 0

AllInRange ==
    \A i \in DOMAIN indices : 0 <= indices[i] /\ indices[i] <= total_pages - 1

StrictlyAscending(seq) ==
    \A i \in DOMAIN seq : \A j \in DOMAIN seq : i < j => seq[i] < seq[j]

\* the texts transcribe may return for the current page
ReturnableTexts ==
    ServiceTexts
    \cup {ErrorMarker(page_number, d) : d \in ErrorDetails}
    \cup {FailedMarker(page_number, RETRY_ATTEMPTS)}

---------------------------------------------------------------------------
(* C1 *)

\* C1: once save_progress has returned for the k-th page, an interrupted run
\* leaves a text file holding at least the first k processed pages, in order.
C1_InterruptKeepsSavedPages ==
    pc = "interrupted" =>
        /\ Len(PagesIn(txtFile)) >= saves
        /\ SubSeq(PagesIn(txtFile), 1, saves) = SubSeq(processed_pages, 1, saves)

---------------------------------------------------------------------------
(* C2 *)

\* C2: over indices that all lie in 0..total_pages-1, whatever the service
\* does, nothing aborts the loop, transcribe is entered once per selected page,
\* a page whose attempts are used up gets an error marker as its text, and a
\* finished run holds one PageResult per selected page, all of them persisted.
C2_OneResultPerSelectedPage ==
    (Selected /\ AllInRange) =>
        /\ error \notin {"IndexError", "APIError"}
        /\ Len(processed_pages) <= transcribeCalls
        /\ transcribeCalls <= Len(processed_pages) + 1
        /\ \A j \in DOMAIN processed_pages :
              processed_pages[j].page_number = indices[j] + 1
        /\ (pc \in {"save", "write", "pause"}
               /\ calls = RETRY_ATTEMPTS /\ AllFailed)
              => IsErrorMarker(processed_pages[Len(processed_pages)].transcription)
        /\ pc = "done" =>
              /\ Len(processed_pages) = Len(indices)
              /\ transcribeCalls = Len(indices)
              /\ saves = Len(indices)
              /\ indices # <<>> => PagesIn(txtFile) = processed_pages

C2_Witness ==
    /\ pc = "done"
    /\ AllInRange
    /\ Len(processed_pages) = 2
    /\ RETRY_ATTEMPTS = 2
    /\ IsErrorMarker(processed_pages[1].transcription)
    /\ processed_pages[2].transcription \in ServiceTexts
    /\ calls = 2
    /\ PagesIn(txtFile) = processed_pages

---------------------------------------------------------------------------
(* C3 *)

\* C3: for every attempt cap N >= 0 and every sequence of outcomes, transcribe
\* ends by returning a text for its page; no service error leaves it.
C3_TranscribeReturnsText ==
    /\ error # "APIError"
    /\ pc = "append" => transcription \in ReturnableTexts

C3_Witness ==
    /\ pc = "append"
    /\ Len(outcomes) = 3
    /\ outcomes[1].kind = "rate"
    /\ outcomes[2].kind = "err"
    /\ outcomes[3].kind = "rate"
    /\ transcription \in ReturnableTexts

---------------------------------------------------------------------------
(* C4 *)

\* C4 as stated: when every call fails and N >= 1, transcribe makes N calls
\* and returns a text holding the page number and the detail of the failure.
C4_ExhaustionCarriesDetail ==
    (pc = "append" /\ RETRY_ATTEMPTS >= 1 /\ AllFailed) =>
        /\ calls = RETRY_ATTEMPTS
        /\ Contains(transcription, ToString(page_number))
        /\ Contains(transcription, LastOutcome.detail)

\* C4 as amended: when every call fails and N >= 1, transcribe makes N calls
\* and returns a text holding the page number; the text holds the detail of
\* the N-th failure when that failure is not rate limiting, and is the
\* attempts-exhausted marker, with N and no error detail, when it is.
C4_ExhaustionMarkerByLastFailure ==
    (pc = "append" /\ RETRY_ATTEMPTS >= 1 /\ AllFailed) =>
        /\ error # "APIError"
        /\ calls = RETRY_ATTEMPTS
        /\ Contains(transcription, ToString(page_number))
        /\ LastOutcome.kind = "err" =>
              Contains(transcription, LastOutcome.detail)
        /\ LastOutcome.kind = "rate" =>
              /\ transcription = FailedMarker(page_number, RETRY_ATTEMPTS)
              /\ Contains(transcription, ToString(RETRY_ATTEMPTS))
              /\ Range(transcription)
                    \cap (ErrorDetails \cup {RateLimitDetail}) = {}

C4_Witness ==
    /\ pc = "append"
    /\ RETRY_ATTEMPTS = 2
    /\ calls = 2
    /\ outcomes[1].kind = "rate"
    /\ outcomes[2].kind = "err"
    /\ Contains(transcription, outcomes[2].detail)

---------------------------------------------------------------------------
(* C5 *)

---------------------------------------------------------------------------
(* C6 *)

\* C6: the service calls made for one page never exceed the attempt cap,
\* whatever mix of rate-limited and other failures occurs.
C6_CallsWithinCap == calls <= RETRY_ATTEMPTS /\ Len(outcomes) = calls

C6_Witness ==
    /\ pc = "transcribe"
    /\ calls = RETRY_ATTEMPTS
    /\ calls = 3
    /\ \E i \in DOMAIN outcomes : outcomes[i].kind = "rate"
    /\ \E i \in DOMAIN outcomes : outcomes[i].kind = "err"

---------------------------------------------------------------------------
(* C7 *)

\* C7: every index the Page Selector returns lies in 0..total_pages-1.
C7_IndicesWithinDocument == Selected => AllInRange

---------------------------------------------------------------------------
(* C8 *)

\* the page list the expression was written from has pages and range starts
\* of 1 or more
WellFormedList == tokens # <<>> /\ \A i \in DOMAIN tokens : tokens[i].p >= 1

\* {p-1} for a single page, {start-1 .. min(end, total_pages)-1} for a range
ListedIndices ==
    UNION { IF tokens[i].kind = "single"
            THEN {tokens[i].p - 1}
            ELSE {x \in 0..total_pages :
                     /\ tokens[i].p - 1 <= x
                     /\ x <= tokens[i].e - 1
                     /\ x <= total_pages - 1}
            : i \in DOMAIN tokens }

\* C8: a well-formed expression of single pages and hyphen ranges is accepted
\* and gives the strictly ascending list of exactly the listed indices, range
\* ends above total_pages clamped.
C8_ExactSortedSet ==
    (Selected /\ WellFormedList) =>
        /\ pc = "page"
        /\ StrictlyAscending(indices)
        /\ Range(indices) = ListedIndices

C8_Witness ==
    /\ pc = "page"
    /\ total_pages = 2
    /\ page_range = <<"3", ",", "1", "-", "1", "0", "0">>
    /\ indices = <<0, 1, 2>>

---------------------------------------------------------------------------
(* C9 *)

HyphenCount(t) == Cardinality({i \in DOMAIN t : t[i] = "-"})

\* a token that is no integer and no pair of integers around one hyphen
MalformedToken(rawToken) ==
    LET t == Strip(rawToken)
    IN  \/ HyphenCount(t) > 1
        \/ HyphenCount(t) = 0 /\ ~IntParsable(t)
        \/ HyphenCount(t) = 1 /\ \E k \in 1..2 : ~IntParsable(SplitOnce(t, "-")[k])

\* C9: an expression with a token that is not an integer or that holds more
\* than one hyphen fails with a malformed-range error and selects nothing.
C9_MalformedTokenFails ==
    ( /\ pc \notin {"load", "select"}
      /\ page_range # <<>>
      /\ \E i \in DOMAIN Split(page_range, ",") :
            MalformedToken(Split(page_range, ",")[i]) ) =>
        /\ pc = "failed"
        /\ error = "ValueError"
        /\ indices = <<>>

---------------------------------------------------------------------------
(* C10 *)

\* C10: processed_pages never holds more entries than the document has pages.
C10_ProcessedWithinTotal ==
    Selected => Len(processed_pages) <= total_pages

---------------------------------------------------------------------------
(* C11 *)

PageNumbers(pages) == [i \in DOMAIN pages |-> pages[i].page_number]

\* C11: the page numbers in processed_pages are strictly ascending in sequence
\* order in every state of a run, so none occurs twice, also for expressions
\* that list pages out of order, repeated or overlapping.
C11_PageNumbersAscending == StrictlyAscending(PageNumbers(processed_pages))

C11_Witness ==
    /\ page_range = <<"2", ",", "1">>
    /\ PageNumbers(processed_pages) = <<1, 2>>

---------------------------------------------------------------------------
(* C12 *)

\* the output files are as the run found them
FilesUntouched ==
    \/ txtFile = NoTxtFile /\ jsonFile = NoJsonFile
    \/ txtFile = EarlierTxtFile /\ jsonFile = EarlierJsonFile

\* C12: a missing document, a document without pages and a malformed page
\* range end the run before the first loop iteration: no service call has
\* been made and neither output file has been created or modified.
C12_InputErrorTouchesNothing ==
    /\ (docPages <= 0 /\ pc # "load") => pc \in {"failed", "interrupted"}
    /\ (docPages = -1 /\ pc = "failed") => error = "FileNotFoundError"
    /\ (docPages = 0 /\ pc = "failed") => error = "ValueError"
    /\ (pc = "failed" /\ error \in {"FileNotFoundError", "ValueError"}) =>
          /\ transcribeCalls = 0
          /\ calls = 0
          /\ processed_pages = <<>>
          /\ saves = 0
          /\ jsonSaves = 0
          /\ FilesUntouched

C12_Witness ==
    /\ pc = "failed"
    /\ error = "ValueError"
    /\ page_range = <<"1", ",", "a">>
    /\ docPages = 2
    /\ save_json
    /\ txtFile = EarlierTxtFile
    /\ jsonFile = EarlierJsonFile

---------------------------------------------------------------------------
(* C13 *)

\* C13: a run over n >= 1 selected pages pauses exactly n-1 times: once after
\* the save_progress of every page but the last and before the next page's
\* first service call, never after the last page.
C13_PausesBetweenPages ==
    (Selected /\ Len(indices) >= 1) =>
        /\ pc \in {"transcribe", "append", "save", "write", "pause"} =>
              pauses = pos - 1
        /\ pc = "page" => pauses = Min(pos - 1, Len(indices) - 1)
        /\ pc \in {"final", "done"} => pauses = Len(indices) - 1
        /\ pauses <= saves
        /\ pauses <= Len(indices) - 1

C13_Witness ==
    /\ pc = "done"
    /\ Len(indices) = 2
    /\ saves = 2
    /\ pauses = 1

---------------------------------------------------------------------------
\* C14: the JSON file is written at most once per run, only when it was asked
\* for, and only after the last selected page was appended and saved; a run
\* that did not ask for it leaves the JSON file as it found it.
C14_JsonOnceAfterLastPage ==
    /\ jsonSaves <= 1
    /\ jsonSaves = 1 =>
          /\ save_json
          /\ pc = "done"
          /\ Len(processed_pages) = Len(indices)
          /\ saves = Len(indices)
          /\ jsonFile = WrittenJsonFile(total_pages, processed_pages)
    /\ (pc = "done" /\ save_json) => jsonSaves = 1
    /\ ~save_json =>
          /\ jsonSaves = 0
          /\ jsonFile \in {NoJsonFile, EarlierJsonFile}

C14_Witness ==
    /\ pc = "done"
    /\ save_json
    /\ jsonSaves = 1
    /\ Len(processed_pages) = 2
    /\ saves = 2

---------------------------------------------------------------------------
\* C15: save_progress is an idempotent full overwrite: called again with the
\* same result it leaves the text file exactly as the first call left it, and
\* what the file held before the first call is gone (nothing is appended to
\* earlier contents): the file's pages are the result's pages.
C15_SaveProgressIdempotent ==
    (pc = "pause" /\ saves >= 1) =>
        /\ txtFile.exists
        /\ txtFile.lines = firstSaved
        /\ PagesIn(txtFile) = processed_pages

C15_Witness ==
    /\ pc = "pause"
    /\ saves = 2
    /\ jsonFile = EarlierJsonFile
    /\ Len(processed_pages) = 2
    /\ processed_pages[1].page_number = 2
    /\ txtFile.lines = firstSaved

---------------------------------------------------------------------------
\* C16: what save_json writes, parsed back, yields processed_pages of the same
\* length, in the same order, with the same page number and the identical
\* transcription text for every entry.
C16_JsonRoundTrip ==
    (pc = "done" /\ jsonSaves = 1) =>
        LET back == JsonLoads(jsonFile.text)
        IN  /\ jsonFile.exists
            /\ back.ok
            /\ Len(back.processed_pages) = Len(processed_pages)
            /\ \A i \in DOMAIN processed_pages :
                  /\ back.processed_pages[i].page_number
                        = processed_pages[i].page_number
                  /\ back.processed_pages[i].transcription
                        = processed_pages[i].transcription

C16_Witness ==
    /\ pc = "done"
    /\ jsonSaves = 1
    /\ Len(processed_pages) = 2
    /\ processed_pages[1].page_number = 2
    /\ processed_pages[1].transcription = <<"\\", "n">>
    /\ processed_pages[2].transcription = <<"\n", "\"">>
    /\ JsonLoads(jsonFile.text).processed_pages = processed_pages

---------------------------------------------------------------------------
\* the page numbers of the banners in the text file, in file order
BannerNumbers(file) ==
    LET banners == SelectSeq(file.lines, LAMBDA l : l.kind = "banner")
    IN  [i \in DOMAIN banners |-> banners[i].page]

AllSucceeded ==
    \A i \in DOMAIN processed_pages :
        processed_pages[i].transcription \in ServiceTexts

\* C17: a document of n pages run without a range expression, every
\* transcription succeeding, never fails and ends with total_pages = n,
\* processed_pages of length n numbered 1, 2, ..., n in that order, and a
\* text file with exactly n page banners in the same order.
C17_WholeDocumentInOrder ==
    /\ pc # "failed"
    /\ (pc = "done" /\ AllSucceeded) =>
          /\ total_pages = docPages
          /\ Len(processed_pages) = docPages
          /\ PageNumbers(processed_pages) = [i \in 1..docPages |-> i]
          /\ BannerNumbers(txtFile) = [i \in 1..docPages |-> i]

C17_Witness ==
    /\ pc = "done"
    /\ docPages = 3
    /\ AllSucceeded
    /\ total_pages = 3
    /\ PageNumbers(processed_pages) = <<1, 2, 3>>
    /\ BannerNumbers(txtFile) = <<1, 2, 3>>

---------------------------------------------------------------------------
IsPrefix(s, t) == Len(s) <= Len(t) /\ s = SubSeq(t, 1, Len(s))

\* the run stands between two steps of the loop, not inside save_progress
\* (a process stopped inside it is told by the emptied file)
AtStepBoundary ==
    /\ pc # "write"
    /\ pc \in {"interrupted", "failed"} =>
          ~(txtFile.exists /\ txtFile.lines = <<>>)

\* transcribe, append, save_progress, in this order, once each per page
StepOrder ==
    /\ pc \in {"transcribe", "append"} =>
          /\ Len(processed_pages) = transcribeCalls - 1
          /\ saves = Len(processed_pages)
    /\ pc \in {"save", "write"} =>
          /\ Len(processed_pages) = transcribeCalls
          /\ saves = Len(processed_pages) - 1
    /\ pc \in {"page", "pause", "final", "done"} =>
          /\ Len(processed_pages) = transcribeCalls
          /\ saves = Len(processed_pages)
    /\ saves <= Len(processed_pages)
    /\ Len(processed_pages) <= transcribeCalls
    /\ transcribeCalls <= saves + 1

FileIsPrefix ==
    (AtStepBoundary /\ saves >= 1) =>
        /\ IsPrefix(PagesIn(txtFile), processed_pages)
        /\ Len(processed_pages) - Len(PagesIn(txtFile)) <= 1

\* processed_pages changes only by one PageResult added at its end
GrowsByAppending ==
    /\ IsPrefix(processed_pages, processed_pages')
    /\ Len(processed_pages') = Len(processed_pages) + 1

\* C18: for each selected page the steps are transcribe, append, save_progress
\* in this order, save_progress completing once per appended page before any
\* service call for the next page; at every step boundary after the first
\* save_progress the pages in the text file are a prefix of processed_pages
\* lacking at most its newest entry; processed_pages only grows at its end.
C18_StepOrderAndPrefix ==
    /\ [](StepOrder /\ FileIsPrefix)
    /\ [][processed_pages' # processed_pages => GrowsByAppending]_vars

C18_Witness ==
    /\ pc = "save"
    /\ Len(processed_pages) = 2
    /\ saves = 1
    /\ PagesIn(txtFile) = <<processed_pages[1]>>
    /\ processed_pages[1].page_number < processed_pages[2].page_number

---------------------------------------------------------------------------
\* C19: a successful response ends transcribe at once: no service call and no
\* backoff wait follows the first success for a page (the waits are the ones
\* of the failures before it), and the returned text is the text of that
\* response, whatever failures preceded it.
C19_SuccessShortCircuits ==
    /\ calls = Len(outcomes)
    /\ \A i \in DOMAIN outcomes :
          outcomes[i].kind = "ok" => i = Len(outcomes)
    /\ (outcomes # <<>> /\ LastOutcome.kind = "ok") =>
          /\ pc # "transcribe"
          /\ Len(sleeps) = Len(outcomes) - 1
          /\ transcription = LastOutcome.text

C19_Witness ==
    /\ pc = "append"
    /\ Len(outcomes) = 3
    /\ outcomes[1].kind = "err"
    /\ outcomes[2].kind = "rate"
    /\ outcomes[3].kind = "ok"
    /\ transcription = outcomes[3].text
    /\ Len(sleeps) = 2

---------------------------------------------------------------------------
\* what a loop did with its i-th call, which ended in an error that is not
\* rate limiting: before the cap-th attempt one wait of exactly the base delay
\* and then the next attempt; on the cap-th attempt the returned text holds
\* the page number and the error detail and no wait was made for it
ErrorHandledByAttempt(i, o, running, att, made, waits, delay, text) ==
    IF i < RETRY_ATTEMPTS
    THEN /\ Len(waits) >= i
         /\ waits[i] = delay
         /\ i = made => (running /\ att = i + 1 /\ Len(waits) = i)
    ELSE /\ i = RETRY_ATTEMPTS
         /\ i = made
         /\ ~running
         /\ Len(waits) = i - 1
         /\ Contains(text, ToString(page_number))
         /\ Contains(text, o.detail)

\* C20: on a service error that is not rate limiting, before the N-th attempt
\* transcribe waits exactly the base delay, not scaled by the attempt number,
\* and retries; on the N-th attempt it returns the error marker with the page
\* number and the error detail at once, without waiting. The same holds of
\* the script's transcribe_page.
C20_ErrorByAttemptNumber ==
    /\ \A i \in DOMAIN outcomes :
          outcomes[i].kind = "err" =>
              ErrorHandledByAttempt(i, outcomes[i], pc = "transcribe", attempt,
                                    calls, sleeps, RETRY_DELAY_SECONDS,
                                    transcription)
    /\ \A i \in 1..script.calls :
          outcomes[i].kind = "err" =>
              ErrorHandledByAttempt(i, outcomes[i], script.pc = "loop",
                                    script.attempt, script.calls,
                                    script.sleeps, RETRY_DELAY, script.result)

C20_Witness ==
    /\ RETRY_ATTEMPTS = 3
    /\ pc = "append"
    /\ script.pc = "returned"
    /\ \A i \in 1..3 : outcomes[i].kind = "err"
    /\ outcomes[3].detail # outcomes[2].detail
    /\ sleeps = <<RETRY_DELAY_SECONDS, RETRY_DELAY_SECONDS>>
    /\ script.sleeps = <<RETRY_DELAY, RETRY_DELAY>>
    /\ transcription = ErrorMarker(page_number, outcomes[3].detail)
    /\ script.result = ScriptErrorMarker(page_number, outcomes[3].detail)

---------------------------------------------------------------------------
\* the Page Selector returned the empty sequence (a run that is past the
\* Select stage without having failed in it), or was stopped before it ran
EmptySelection ==
    /\ Selected
    /\ indices = <<>>
    /\ pc # "failed"

\* C21: when the Page Selector yields the empty sequence the run completes
\* without error with zero iterations: no service call, no pause, no
\* save_progress, the text file neither created nor rewritten, processed_pages
\* empty in the result, and save_json still invoked if it was requested.
C21_EmptySelectionRunsThrough ==
    /\ (Selected /\ indices = <<>> /\ pc = "failed") =>
          /\ error = "ValueError"
          /\ ~SelectIndices(page_range, total_pages).ok
    /\ EmptySelection =>
        /\ pc \in {"page", "final", "done", "interrupted"}
        /\ error = ""
        /\ indices = <<>>
        /\ transcribeCalls = 0
        /\ calls = 0
        /\ pauses = 0
        /\ saves = 0
        /\ txtFile \in {NoTxtFile, EarlierTxtFile}
        /\ processed_pages = <<>>
        /\ pc = "done" =>
              /\ jsonSaves = (IF save_json THEN 1 ELSE 0)
              /\ save_json =>
                    JsonLoads(jsonFile.text).processed_pages = <<>>

C21_Witness ==
    /\ EmptySelection
    /\ page_range = <<"2", "-", "1">>
    /\ pc = "done"
    /\ save_json
    /\ jsonSaves = 1
    /\ txtFile = NoTxtFile
    /\ jsonFile.exists

---------------------------------------------------------------------------
\* C22: every PageResult appended has a page number in 1..total_pages, and
\* the coordinator never transcribes a page for an index below 0.
C22_PageNumbersPositive ==
    /\ \A i \in DOMAIN processed_pages :
          processed_pages[i].page_number \in 1..total_pages
    /\ pc \in {"transcribe", "append"} => indices[pos] >= 0

---------------------------------------------------------------------------
IsExhaustedMarker(text) ==
    /\ text # NoText
    /\ text[1] \in {"[TRANSCRIPTION FAILED -- page ", "[FALLO despues de "}

HoldsNoDetail(text) ==
    Range(text) \cap (ErrorDetails \cup {RateLimitDetail}) = {}

\* a loop that returned after `made` calls, none of them a success: what it
\* returned and how it waited, by the outcome of its cap-th call alone
MarkerByLastAttempt(made, waits, delay, text) ==
    /\ made = (IF RETRY_ATTEMPTS <= 0 THEN 0 ELSE RETRY_ATTEMPTS)
    /\ Contains(text, ToString(page_number))
    /\ made = 0 =>
          /\ waits = <<>>
          /\ IsExhaustedMarker(text)
          /\ HoldsNoDetail(text)
    /\ (made > 0 /\ outcomes[made].kind = "rate") =>
          /\ Len(waits) = made
          /\ waits[made] = delay * RETRY_ATTEMPTS
          /\ IsExhaustedMarker(text)
          /\ Contains(text, ToString(RETRY_ATTEMPTS))
          /\ HoldsNoDetail(text)
    /\ (made > 0 /\ outcomes[made].kind = "err") =>
          /\ Len(waits) = made - 1
          /\ ~IsExhaustedMarker(text)
          /\ Contains(text, outcomes[made].detail)

\* C23: the marker returned on failure is decided by the N-th attempt alone:
\* rate-limited, the loop still waits base delay * N and returns the
\* attempts-exhausted marker with the page number and N and no error detail;
\* failed with another service error, it returns the error marker with the
\* detail; with N <= 0 it returns the attempts-exhausted marker without a
\* service call. This holds of transcribe and of the script's transcribe_page.
C23_MarkerByLastAttempt ==
    /\ pc \in {"transcribe", "append"}
    /\ error = ""
    /\ (pc = "append" /\ AllFailed) =>
          MarkerByLastAttempt(calls, sleeps, RETRY_DELAY_SECONDS, transcription)
    /\ (script.pc = "returned"
            /\ \A i \in 1..script.calls : outcomes[i].kind # "ok") =>
          MarkerByLastAttempt(script.calls, script.sleeps, RETRY_DELAY,
                              script.result)

C23_Witness ==
    /\ RETRY_ATTEMPTS = 3
    /\ pc = "append"
    /\ script.pc = "returned"
    /\ outcomes[1].kind = "err"
    /\ outcomes[2].kind = "err"
    /\ outcomes[3].kind = "rate"
    /\ sleeps[3] = 3 * RETRY_DELAY_SECONDS
    /\ IsExhaustedMarker(transcription)
    /\ IsExhaustedMarker(script.result)

\* the loops entered with a cap below 1 return without a call
C23_WitnessNoAttempts ==
    /\ RETRY_ATTEMPTS = -1
    /\ pc = "append"
    /\ calls = 0
    /\ IsExhaustedMarker(transcription)

---------------------------------------------------------------------------
\* a selected index lies beyond the last page
SelectedBeyondDocument ==
    Selected /\ \E i \in DOMAIN indices : indices[i] >= total_pages

\* C24: a single-page token greater than total_pages is neither rejected nor
\* clamped by the Page Selector; the coordinator transcribes and saves every
\* smaller selected page first and then fails with an index error at the
\* out-of-range index, the text file holding the pages processed before the
\* failure, and no result is returned (the final step is never reached).
C24_BeyondDocumentFailsLate ==
    /\ (page_range = <<"1", ",", "9">> /\ total_pages > 0) =>
          /\ pc = "failed" => error = "IndexError"
          /\ pc \notin {"load", "select", "interrupted"} => indices = <<0, 8>>
    /\ SelectedBeyondDocument =>
          /\ pc \notin {"final", "done"}
          /\ jsonSaves = 0
          /\ pc = "failed" => error = "IndexError"
    /\ error = "IndexError" =>
          /\ pc = "failed"
          /\ ~ValidImageIndex(indices[pos], total_pages)
          /\ \A j \in 1..(pos - 1) : ValidImageIndex(indices[j], total_pages)
          /\ PageNumbers(processed_pages) = [j \in 1..(pos - 1) |-> indices[j] + 1]
          /\ saves = pos - 1
          /\ transcribeCalls = pos - 1
          /\ pos > 1 => PagesIn(txtFile) = processed_pages
          /\ pos = 1 => txtFile \in {NoTxtFile, EarlierTxtFile}

C24_Witness ==
    /\ page_range = <<"1", ",", "9">>
    /\ docPages = 2
    /\ pc = "failed"
    /\ error = "IndexError"
    /\ indices[pos] = 8
    /\ PageNumbers(processed_pages) = <<1>>
    /\ PagesIn(txtFile) = processed_pages

---------------------------------------------------------------------------
\* max(N, 0): the attempts a loop over range(1, N + 1) makes at most
AttemptCap == IF RETRY_ATTEMPTS > 0 THEN RETRY_ATTEMPTS ELSE 0

\* the counts of a run stay within the attempt cap and the selection
WithinCaps ==
    /\ calls <= AttemptCap
    /\ Len(sleeps) <= AttemptCap
    /\ transcribeCalls <= Len(indices)
    /\ tally.serviceCalls <= AttemptCap * transcribeCalls
    /\ pc \in {"final", "done"} =>
          /\ transcribeCalls = Len(indices)
          /\ Len(processed_pages) = Len(indices)
          /\ saves = Len(indices)
          /\ tally.serviceCalls <= AttemptCap * Len(indices)

\* C25: every run terminates: each transcribe call returns after at most N
\* attempts and at most N waits, a run over n selected in-range pages reaches
\* the final step after exactly n loop iterations, and at most N*n service
\* calls are made in total.
C25_RunTerminates ==
    /\ []WithinCaps
    /\ <>(pc \in {"done", "failed"})
    /\ (pc = "transcribe") ~> (pc = "append")
    /\ (pc = "page" /\ AllInRange) ~> (pc = "final")

C25_Witness ==
    /\ pc = "done"
    /\ RETRY_ATTEMPTS = 2
    /\ Len(indices) = 2
    /\ transcribeCalls = 2
    /\ tally.serviceCalls = 4

---------------------------------------------------------------------------
\* the kind of value a retry loop returned
ResultKind(text) ==
    IF IsExhaustedMarker(text) THEN "exhausted"
    ELSE IF text # NoText
            /\ text[1] \in {"[TRANSCRIPTION ERROR -- page ", "[ERROR en pagina "}
    THEN "error"
    ELSE "success"

\* a loop is about to make a service call
ClientWantsCall == pc = "transcribe" /\ attempt <= RETRY_ATTEMPTS
ScriptWantsCall == script.pc = "loop" /\ script.attempt <= RETRY_ATTEMPTS

\* C26: transcribe and the script's transcribe_page, run with the same cap,
\* the same base delay and the same outcome of each call, are the same state
\* machine: after the same number of calls both have waited the same waits
\* and either both go on to another call or neither does, and they return the
\* same kind of result (the success text, an error marker with the same
\* detail, or an attempts-exhausted marker), only the marker wording differing.
C26_SameRetryMachine ==
    /\ RETRY_DELAY = RETRY_DELAY_SECONDS
    /\ script.calls <= calls
    /\ Len(script.sleeps) <= Len(sleeps)
    /\ script.sleeps = SubSeq(sleeps, 1, Len(script.sleeps))
    /\ script.calls = calls =>
          /\ script.sleeps = sleeps
          /\ ClientWantsCall <=> ScriptWantsCall
          /\ ClientWantsCall => script.attempt = attempt
    /\ script.pc = "returned" => script.calls = calls
    /\ (script.pc = "returned" /\ pc = "append") =>
          /\ ResultKind(script.result) = ResultKind(transcription)
          /\ ResultKind(transcription) = "success" =>
                /\ script.result = transcription
                /\ transcription = LastOutcome.text
          /\ ResultKind(transcription) = "error" =>
                /\ Contains(script.result, LastOutcome.detail)
                /\ Contains(transcription, LastOutcome.detail)
          /\ Contains(script.result, ToString(page_number))
                <=> Contains(transcription, ToString(page_number))

C26_Witness ==
    /\ RETRY_ATTEMPTS = 3
    /\ pc = "append"
    /\ script.pc = "returned"
    /\ outcomes[1].kind = "rate"
    /\ outcomes[2].kind = "rate"
    /\ outcomes[3].kind = "err"
    /\ script.sleeps = <<RETRY_DELAY, 2 * RETRY_DELAY>>
    /\ sleeps = script.sleeps
    /\ ResultKind(script.result) = "error"
    /\ script.result # transcription

=============================================================================
